---- MODULE Spec2Model ----
(***************************************************************************)
(* A model of predict.py: the device-characterization script that fetches  *)
(* a PTM model card, sweeps a MOSFET test bench over (W, L, Vbs) through a *)
(* process pool, post-processes the concatenated table, writes it to disk  *)
(* and plots sample traces.                                                *)
(*                                                                         *)
(* The script is one linear pipeline.  Its four stages are modelled as     *)
(* four specifications over one set of variables; a stage that is not      *)
(* running leaves its variables at their initial values:                   *)
(*   SpecLib    setup_library and the file system            (lines 43-57) *)
(*   SpecSweep  the sweep-grid comprehension               (lines 106-109) *)
(*   SpecPool   sim_dc run by the pool's workers, imap      (lines 92-118) *)
(*   SpecPost   concat, derived columns, write, round, plot (lines 121-188)*)
(*                                                                         *)
(* Units.  Lengths are integers in units of 1/9 nm, so that the linspace   *)
(* steps (74 um / 9, 9.85 um / 9) are whole numbers.  Voltages are         *)
(* integers in units of 1 mV: 0.01 V, the resolution of round(.., 2), is   *)
(* VoltQ units, and a value off the 0.01 V grid stands for a float that is *)
(* not exactly a two-decimal number.  Conductances and capacitances are    *)
(* integers in half quanta: raw simulator values are even, so that the     *)
(* multiplications by 0.5 are exact, as they are on binary floats.         *)
(***************************************************************************)
EXTENDS Integers, Sequences, FiniteSets, TLC

VARIABLES
    \* ---- setup_library (SpecLib)
    fs,             \* the file system: path -> node
    lib_pc,         \* position inside setup_library
    http_requests,  \* number of requests.get calls made so far
    req,            \* the response held by the running call
    returned,       \* the values returned by the calls made so far
    entry,          \* file system and request count when the running call began
    calls,          \* number of calls made
    \* ---- sweep comprehension (SpecSweep)
    sweep,          \* the list under construction
    loop,           \* the three loop indices and the comprehension's position
    \* ---- process pool (SpecPool)
    taskq,          \* index of the next sweep point the task handler hands out
    worker,         \* per worker process: position, task in hand, circuit copy
    outqueue,       \* results sent back by workers, not yet handled
    imap_it,        \* the IMapIterator: _index, _items, _unsorted
    results,        \* the list built from the iterator
    pool_pc,        \* position of the main process around the pool block
    \* ---- post processing (SpecPost)
    output_format,  \* the configured output format
    sim_data,       \* the concatenated table
    snap,           \* the 16 capacitance arrays unpacked at lines 131-137
    post_pc,        \* position of the script after the pool block
    stdout,         \* lines printed
    csv_file,       \* content of <model_base>.csv
    h5_file,        \* content of the HDF5 file
    traces          \* the rows selected for plotting

libVars   == <<fs, lib_pc, http_requests, req, returned, entry, calls>>
sweepVars == <<sweep, loop>>
poolVars  == <<taskq, worker, outqueue, imap_it, results, pool_pc>>
postVars  == <<output_format, sim_data, snap, post_pc, stdout, csv_file,
               h5_file, traces>>
vars      == <<libVars, sweepVars, poolVars, postVars>>

(***************************************************************************)
(* Bounds of the model.                                                    *)
(***************************************************************************)
MaxCalls   == 4     \* calls of setup_library in one behaviour
MaxTasks   == 4     \* sweep points handed to the pool
DcPoints   == 2     \* points per axis of the DC sweep kept in a run
MaxRuns    == 2     \* runs concatenated by the post-processing stage
NumSeeds   == 2     \* distinct simulator outputs tried per run

(***************************************************************************)
(* File system setup, lines 19-26.                                         *)
(***************************************************************************)
lib_path   == "lib"
model_base == "90nm_bulk"
model_file == model_base \o ".lib"
model_url  == "http://ptm.asu.edu/modelcard/2006/" \o model_base \o ".pm"
pool_size  == 6

(***************************************************************************)
(* setup_library, lines 43-54, and the file system it works on.            *)
(***************************************************************************)
\* f'./{path}' (lines 47, 48, 54) and f'./{path}/{model}' (line 44)
LibDir(path)           == "./" \o path
ModelPath(path, model) == "./" \o path \o "/" \o model

Paths == {LibDir(lib_path), ModelPath(lib_path, model_file)}

Absent     == [kind |-> "absent", data |-> ""]
Directory  == [kind |-> "dir",    data |-> ""]
File(data) == [kind |-> "file",   data |-> data]

\* what the server at model_url may answer
Responses == {"ptm_card_a", "ptm_card_b", "ptm_card_c"}
NoResponse == "none"

\* os.path.isfile, os.path.isdir
IsFileNever(f, p) == FALSE
IsFile(f, p) == f[p].kind = "file"
IsDir(f, p)  == f[p].kind = "dir"

\* the three starting states: no directory, a directory without the file,
\* a directory with the file (of any earlier content)
LibInit ==
    /\ \E d \in {Absent, Directory} :
       \E m \in {Absent} \cup {File(c) : c \in Responses} :
          /\ (m.kind = "file" => d.kind = "dir")
          /\ fs = [p \in Paths |->
                     IF p = LibDir(lib_path) THEN d ELSE m]
    /\ lib_pc = "idle"
    /\ http_requests = 0
    /\ req = NoResponse
    /\ returned = <<>>
    /\ entry = [fs |-> fs, http |-> 0]
    /\ calls = 0

\* the state line 57 leaves behind: the model card is on disk
LibReturned ==
    /\ fs = [p \in Paths |->
               IF p = LibDir(lib_path) THEN Directory ELSE File("ptm_card_a")]
    /\ lib_pc = "returned"
    /\ http_requests = 1
    /\ req = "ptm_card_a"
    /\ returned = << LibDir(lib_path) >>
    /\ entry = [fs |-> [p \in Paths |-> Absent], http |-> 0]
    /\ calls = 1

\* line 57 (and any later run of the script): setup_library is entered
Call ==
    /\ lib_pc \in {"idle", "returned", "raised"}
    /\ calls < MaxCalls
    /\ calls' = calls + 1
    /\ entry' = [fs |-> fs, http |-> http_requests]
    /\ req' = NoResponse
    /\ lib_pc' = "isfile"
    /\ UNCHANGED <<fs, http_requests, returned>>
    /\ UNCHANGED <<sweepVars, poolVars, postVars>>

\* line 46: if not os.path.isfile(model_path)
TestIsFile ==
    /\ lib_pc = "isfile"
    /\ lib_pc' = IF IsFile(fs, ModelPath(lib_path, model_file))
                 THEN "return" ELSE "isdir"
    /\ UNCHANGED <<fs, http_requests, req, returned, entry, calls>>
    /\ UNCHANGED <<sweepVars, poolVars, postVars>>

\* line 47: if not os.path.isdir(f'./{path}')
TestIsDir ==
    /\ lib_pc = "isdir"
    /\ lib_pc' = IF IsDir(fs, LibDir(lib_path)) THEN "open" ELSE "mkdir"
    /\ UNCHANGED <<fs, http_requests, req, returned, entry, calls>>
    /\ UNCHANGED <<sweepVars, poolVars, postVars>>

\* line 48: os.mkdir(f'./{path}')
Mkdir ==
    /\ lib_pc = "mkdir"
    /\ fs' = [fs EXCEPT ![LibDir(lib_path)] = Directory]
    /\ lib_pc' = "open"
    /\ UNCHANGED <<http_requests, req, returned, entry, calls>>
    /\ UNCHANGED <<sweepVars, poolVars, postVars>>

\* line 50: open(model_path, "wb") creates the file, or truncates it
Open ==
    /\ lib_pc = "open"
    /\ fs' = [fs EXCEPT ![ModelPath(lib_path, model_file)] = File("")]
    /\ lib_pc' = "get"
    /\ UNCHANGED <<http_requests, req, returned, entry, calls>>
    /\ UNCHANGED <<sweepVars, poolVars, postVars>>

\* line 51: requests.get answers
GetOk ==
    /\ lib_pc = "get"
    /\ \E c \in Responses : req' = c
    /\ http_requests' = http_requests + 1
    /\ lib_pc' = "write"
    /\ UNCHANGED <<fs, returned, entry, calls>>
    /\ UNCHANGED <<sweepVars, poolVars, postVars>>

\* line 51: requests.get raises; the with block closes the open file and
\* the exception leaves setup_library
GetRaises ==
    /\ lib_pc = "get"
    /\ http_requests' = http_requests + 1
    /\ lib_pc' = "raised"
    /\ UNCHANGED <<fs, req, returned, entry, calls>>
    /\ UNCHANGED <<sweepVars, poolVars, postVars>>

\* line 52 and the end of the with block: the content reaches the file
WriteModel ==
    /\ lib_pc = "write"
    /\ fs' = [fs EXCEPT ![ModelPath(lib_path, model_file)] = File(req)]
    /\ lib_pc' = "return"
    /\ UNCHANGED <<http_requests, req, returned, entry, calls>>
    /\ UNCHANGED <<sweepVars, poolVars, postVars>>

\* line 54: return f'./{path}'
Return ==
    /\ lib_pc = "return"
    /\ returned' = Append(returned, LibDir(lib_path))
    /\ lib_pc' = "returned"
    /\ UNCHANGED <<fs, http_requests, req, entry, calls>>
    /\ UNCHANGED <<sweepVars, poolVars, postVars>>

LibNext ==
    \/ Call \/ TestIsFile \/ TestIsDir \/ Mkdir \/ Open
    \/ GetOk \/ GetRaises \/ WriteModel \/ Return


(***************************************************************************)
(* Simulation parameters, lines 28-40.  Voltages in mV, lengths in 1/9 nm. *)
(* The comprehension at lines 107-109 repeats the sweep ranges as literals *)
(* with these same values.                                                 *)
(***************************************************************************)
VoltQ   == 10        \* 0.01 V, the grid of round(.., ndigits=2)
VSS     == 0
VDD     == 1200
step_DC == 10
min_VB  == -1000
step_VB == -100
min_W   == 9000      \* 1e-6 m
max_W   == 675000    \* 75e-6 m
num_W   == 10
min_L   == 1350      \* 150e-9 m
max_L   == 90000     \* 10e-6 m
num_L   == 10

(***************************************************************************)
(* The sweep grid, lines 106-109.                                          *)
(***************************************************************************)
\* ceil(n / d) for d # 0
CeilDiv(n, d) == IF d > 0 THEN -((-n) \div d) ELSE -(n \div (-d))

\* np.arange(start, stop, step): ceil((stop - start) / step) values
\* start + i * step; the stop value is not produced
ArangeClosed(start, stop, step) ==
    [i \in 1..(CeilDiv(stop - start, step) + 1) |-> start + (i - 1) * step]
Arange(start, stop, step) ==
    [i \in 1..CeilDiv(stop - start, step) |-> start + (i - 1) * step]

\* np.linspace(start, stop, num), endpoint included, num > 1
Linspace(start, stop, num) ==
    [i \in 1..num |->
        IF i = num THEN stop
        ELSE start + ((i - 1) * (stop - start)) \div (num - 1)]

vbs_values == Arange(0, min_VB, step_VB)      \* line 107
l_values   == Linspace(min_L, max_L, num_L)   \* line 108
w_values   == Linspace(min_W, max_W, num_W)   \* line 109

SweepInit ==
    /\ sweep = <<>>
    /\ loop = [pc |-> "vbs", vbs |-> 1, l |-> 1, w |-> 1]

\* for vbs in ...: take the next bulk voltage, or leave the comprehension
ForVbs ==
    /\ loop.pc = "vbs"
    /\ loop.vbs <= Len(vbs_values)
    /\ loop' = [loop EXCEPT !.pc = "l", !.l = 1]
    /\ UNCHANGED sweep
    /\ UNCHANGED <<libVars, poolVars, postVars>>

SweepEnd ==
    /\ loop.pc = "vbs"
    /\ loop.vbs > Len(vbs_values)
    /\ loop' = [loop EXCEPT !.pc = "done"]
    /\ UNCHANGED sweep
    /\ UNCHANGED <<libVars, poolVars, postVars>>

\* for l in ...: take the next length, or go back to the vbs loop
ForL ==
    /\ loop.pc = "l"
    /\ IF loop.l <= Len(l_values)
       THEN loop' = [loop EXCEPT !.pc = "w", !.w = 1]
       ELSE loop' = [loop EXCEPT !.pc = "vbs", !.vbs = @ + 1]
    /\ UNCHANGED sweep
    /\ UNCHANGED <<libVars, poolVars, postVars>>

\* for w in ...: append (w, l, vbs), or go back to the l loop
ForW ==
    /\ loop.pc = "w"
    /\ IF loop.w <= Len(w_values)
       THEN /\ sweep' = Append(sweep, << w_values[loop.w], l_values[loop.l],
                                         vbs_values[loop.vbs] >>)
            /\ loop' = [loop EXCEPT !.w = @ + 1]
       ELSE /\ loop' = [loop EXCEPT !.pc = "l", !.l = @ + 1]
            /\ UNCHANGED sweep
    /\ UNCHANGED <<libVars, poolVars, postVars>>

SweepNext == ForVbs \/ SweepEnd \/ ForL \/ ForW

\* the list the comprehension builds
RECURSIVE Flatten(_)
Flatten(ss) == IF ss = <<>> THEN <<>> ELSE Head(ss) \o Flatten(Tail(ss))

SweepList ==
    Flatten([i \in 1..Len(vbs_values) |->
        Flatten([j \in 1..Len(l_values) |->
            [k \in 1..Len(w_values) |->
                << w_values[k], l_values[j], vbs_values[i] >>]])])


(***************************************************************************)
(* The test bench and one DC analysis, lines 66-103.                       *)
(***************************************************************************)
\* lines 74-80
column_names ==
    << "W", "L", "Vds", "Vgs", "Vbs", "vth", "vdsat",
       "id", "gbs", "gbd", "gds", "gm", "gmbs",
       "cbb", "csb", "cdb", "cgb",
       "css", "csd", "csg", "cds",
       "cdd", "cdg", "cbs", "cbd",
       "cbg", "cgd", "cgs", "cgg" >>

Range(f) == {f[i] : i \in DOMAIN f}
ColumnIndex(c) == CHOOSE k \in DOMAIN column_names : column_names[k] = c

\* lines 66-71: the circuit as built by the main process; M0 has no w and
\* no l yet (0), Vb is at 0 V
InitialCircuit == [w |-> 0, l |-> 0, vbs |-> 0]

\* the points of slice(VSS, VDD, step_DC) kept in the model: the first
\* DcPoints of the 121
Min(a, b) == IF a < b THEN a ELSE b
DcAxis ==
    [i \in 1..Min(DcPoints, (VDD - VSS) \div step_DC + 1) |->
        VSS + (i - 1) * step_DC]

\* the (vd, vg) points of the nested DC sweep, vd running fastest
DcGrid ==
    [r \in 1..(Len(DcAxis) * Len(DcAxis)) |->
        [vd |-> DcAxis[((r - 1) % Len(DcAxis)) + 1],
         vg |-> DcAxis[((r - 1) \div Len(DcAxis)) + 1]]]

\* The simulator is a black box.  Its answer for one device parameter at
\* one DC point is some even number of half quanta, and a voltage it
\* reports may miss the two-decimal grid by a float error; `seed' selects
\* one such answer.
DeviceValue(seed, r, k) ==
    2 * ((((seed + r) * (k + 1) + (k * k) \div 3 + seed) % 7) - 3)
FloatError(seed, r, k)  == ((seed + r + k) % 3) - 1

\* line 97: the analysis of circuit c, one record per DC point
Analysis(c, seed) ==
    [r \in 1..Len(DcGrid) |->
        [col \in Range(column_names) |->
            CASE col = "W"   -> c.w
              [] col = "L"   -> c.l
              [] col = "Vbs" -> c.vbs + FloatError(seed, r, 5)
              [] col = "Vds" -> DcGrid[r].vd + FloatError(seed, r, 3)
              [] col = "Vgs" -> DcGrid[r].vg + FloatError(seed, r, 4)
              [] OTHER       -> DeviceValue(seed, r, ColumnIndex(col))]]

\* lines 100-101: the data frame built from an analysis, its columns in
\* the order of column_names
RunData(c, seed) == [cols |-> column_names, rows |-> Analysis(c, seed)]

\* the simulator is deterministic: one circuit, one answer
SeedOf(c) == ((c.w + c.l + (-c.vbs)) % NumSeeds) + 1

(***************************************************************************)
(* The pool block, lines 113-118: pool_size worker processes, each with    *)
(* its own copy of the circuit objects, run sim_dc on the sweep points;    *)
(* pool.imap hands the results back in task order.                         *)
(***************************************************************************)
Workers == 1..pool_size

\* the sweep points handed to the pool in the model: MaxTasks points of the
\* grid that differ from each other in every coordinate
SweepSample(n) ==
    [i \in 1..n |-> SweepList[1 + (i - 1) * (num_W * num_L + num_W + 1)]]

PoolInit ==
    /\ taskq = 1
    /\ worker = [wk \in Workers |->
                    [pc |-> "none", task |-> 0, ckt |-> InitialCircuit]]
    /\ outqueue = <<>>
    /\ imap_it = [index |-> 1, items |-> <<>>, unsorted |-> {}]
    /\ results = <<>>
    /\ pool_pc = "start"

\* which process memory a worker's sim_dc reads and writes: its own
CircuitShared(wk) == 1
CircuitOf(wk) == wk

\* line 113: mp.Pool(pool_size) forks the workers; each inherits a copy of
\* the circuit as the main process built it
PoolEnter ==
    /\ pool_pc = "start"
    /\ worker' = [wk \in Workers |->
                    [pc |-> "idle", task |-> 0, ckt |-> InitialCircuit]]
    /\ pool_pc' = "imap"
    /\ UNCHANGED <<sweep, taskq, outqueue, imap_it, results>>
    /\ UNCHANGED <<libVars, loop, postVars>>

\* a worker that has not run a task yet: all such workers are alike
Fresh(wk) == worker[wk].pc = "idle" /\ worker[wk].ckt = InitialCircuit

\* a worker takes the next task off the task queue (chunksize 1); any idle
\* worker may be the one, and of the workers that are still alike the
\* model lets the lowest-numbered stand for all
TakeTask(wk) ==
    /\ pool_pc = "imap"
    /\ worker[wk].pc = "idle"
    /\ Fresh(wk) => \A x \in Workers : x < wk => ~Fresh(x)
    /\ taskq <= Len(sweep)
    /\ worker' = [worker EXCEPT ![wk].pc = "w", ![wk].task = taskq]
    /\ taskq' = taskq + 1
    /\ UNCHANGED <<sweep, outqueue, imap_it, results, pool_pc>>
    /\ UNCHANGED <<libVars, loop, postVars>>

\* line 93: M0.w = W
SetW(wk) ==
    /\ worker[wk].pc = "w"
    /\ worker' = [worker EXCEPT
                    ![CircuitOf(wk)].ckt.w = sweep[worker[wk].task][1],
                    ![wk].pc = "l"]
    /\ UNCHANGED <<sweep, taskq, outqueue, imap_it, results, pool_pc>>
    /\ UNCHANGED <<libVars, loop, postVars>>

\* line 94: M0.l = L
SetL(wk) ==
    /\ worker[wk].pc = "l"
    /\ worker' = [worker EXCEPT
                    ![CircuitOf(wk)].ckt.l = sweep[worker[wk].task][2],
                    ![wk].pc = "vbs"]
    /\ UNCHANGED <<sweep, taskq, outqueue, imap_it, results, pool_pc>>
    /\ UNCHANGED <<libVars, loop, postVars>>

\* line 95: Vb.dc_value = u_V(Vbs)
SetVb(wk) ==
    /\ worker[wk].pc = "vbs"
    /\ worker' = [worker EXCEPT
                    ![CircuitOf(wk)].ckt.vbs = sweep[worker[wk].task][3],
                    ![wk].pc = "dc"]
    /\ UNCHANGED <<sweep, taskq, outqueue, imap_it, results, pool_pc>>
    /\ UNCHANGED <<libVars, loop, postVars>>

\* lines 97-103: the analysis of the circuit as it stands, and the data
\* frame sent back with the task's index
Dc(wk) ==
    /\ worker[wk].pc = "dc"
    /\ LET c == worker[CircuitOf(wk)].ckt IN
       outqueue' = Append(outqueue,
                          [i |-> worker[wk].task,
                           run |-> RunData(c, SeedOf(c))])
    /\ worker' = [worker EXCEPT ![wk].pc = "idle", ![wk].task = 0]
    /\ UNCHANGED <<sweep, taskq, imap_it, results, pool_pc>>
    /\ UNCHANGED <<libVars, loop, postVars>>

\* IMapIterator._set: a result that is next in order is appended to _items
\* together with the results waiting behind it; any other waits in _unsorted
RECURSIVE Drain(_)
Drain(it) ==
    IF \E u \in it.unsorted : u.i = it.index
    THEN LET u == CHOOSE u \in it.unsorted : u.i = it.index IN
         Drain([index    |-> it.index + 1,
                items    |-> Append(it.items, u.run),
                unsorted |-> it.unsorted \ {u}])
    ELSE it

ImapSetUnordered(it, msg) ==
    [it EXCEPT !.index = @ + 1, !.items = Append(@, msg.run)]
ImapSet(it, msg) ==
    IF msg.i = it.index
    THEN Drain([it EXCEPT !.index = @ + 1, !.items = Append(@, msg.run)])
    ELSE [it EXCEPT !.unsorted = @ \cup {msg}]

\* the pool's result handler takes one result off the pipe
HandleResult ==
    /\ outqueue # <<>>
    /\ imap_it' = ImapSet(imap_it, Head(outqueue))
    /\ outqueue' = Tail(outqueue)
    /\ UNCHANGED <<sweep, taskq, worker, results, pool_pc>>
    /\ UNCHANGED <<libVars, loop, postVars>>

\* line 117: list(res) takes the next item of the iterator
ListNext ==
    /\ pool_pc = "imap"
    /\ imap_it.items # <<>>
    /\ results' = Append(results, Head(imap_it.items))
    /\ imap_it' = [imap_it EXCEPT !.items = Tail(@)]
    /\ UNCHANGED <<sweep, taskq, worker, outqueue, pool_pc>>
    /\ UNCHANGED <<libVars, loop, postVars>>

\* the iterator is exhausted (_index = _length, nothing left in _items):
\* list(res) returns and the with block ends the pool
PoolExit ==
    /\ pool_pc = "imap"
    /\ imap_it.items = <<>>
    /\ imap_it.index = Len(sweep) + 1
    /\ pool_pc' = "done"
    /\ UNCHANGED <<sweep, taskq, worker, outqueue, imap_it, results>>
    /\ UNCHANGED <<libVars, loop, postVars>>

PoolNext ==
    \/ PoolEnter
    \/ \E wk \in Workers :
          TakeTask(wk) \/ SetW(wk) \/ SetL(wk) \/ SetVb(wk) \/ Dc(wk)
    \/ HandleResult
    \/ ListNext
    \/ PoolExit


(***************************************************************************)
(* Post processing, lines 121-188.  A data frame is its column names, in   *)
(* order, and its rows; a row maps each column name to a value.            *)
(***************************************************************************)
\* lines 122-126
columns ==
    << "W", "L", "Vds", "Vgs", "Vbs",
       "vth", "vdsat", "id", "fug",
       "gbs", "gbd", "gds", "gm", "gmbs",
       "cgd", "cgb", "cgs",
       "cds", "csb", "cdb" >>

\* the 16 columns unpacked at lines 131-137
cap_columns ==
    << "cbb", "csb", "cdb", "cgb",
       "css", "csd", "csg", "cds",
       "cdd", "cdg", "cbs", "cbd",
       "cbg", "cgd", "cgs", "cgg" >>

\* the columns assigned at lines 139-144, in the order of the assignments
derived_columns == << "cgd", "cgb", "cgs", "cds", "csb", "cdb" >>

\* the three rounded columns, in the order of lines 159-161
rounded_columns == << "Vgs", "Vds", "Vbs" >>

HdfFormats == {"hdf5", "hdf", "h5"}
Formats    == HdfFormats \cup {"csv", "json"}

\* the names bound at module level when line 149 runs
ModuleNames ==
    { "np", "pd", "h5", "mp", "plt", "tqdm", "plot", "Circuit",
      "SpiceLibrary", "datetime", "random", "os", "logging", "requests",
      "lib_path", "model_base", "model_file", "model_url", "device_name",
      "output_format", "pool_size", "temperature", "VSS", "VDD", "step_DC",
      "min_VB", "step_VB", "min_W", "max_W", "num_W", "min_L", "max_L",
      "num_L", "setup_library", "lib", "ckt", "Vd", "Vg", "Vb", "M0",
      "column_names", "save_params", "simulator", "sim_dc", "sweep", "pool",
      "res", "results", "sim_data", "columns" } \cup Range(cap_columns)

NoFrame == [cols |-> <<>>, rows |-> <<>>]
NoCsv   == [written |-> FALSE, header |-> <<>>, rows |-> <<>>]
NoHdf   == [written |-> FALSE, datasets |-> <<>>]

PostIdle ==
    /\ output_format = "csv"      \* line 25
    /\ sim_data = NoFrame
    /\ snap = <<>>
    /\ post_pc = "concat"
    /\ stdout = <<>>
    /\ csv_file = NoCsv
    /\ h5_file = NoHdf
    /\ traces = <<>>

\* pd.concat(results, ignore_index=True): the rows of the runs one after
\* the other, renumbered
Concat(frames) ==
    [cols |-> frames[1].cols,
     rows |-> Flatten([i \in 1..Len(frames) |-> frames[i].rows])]

\* sim_data[c] = values: an existing column is overwritten in place, a new
\* one is added after the last
SetColumn(df, c, values) ==
    [cols |-> IF c \in Range(df.cols) THEN df.cols ELSE Append(df.cols, c),
     rows |-> [r \in 1..Len(df.rows) |->
                 [col \in Range(df.cols) \cup {c} |->
                     IF col = c THEN values[r] ELSE df.rows[r][col]]]]

Column(df, c) == [r \in 1..Len(df.rows) |-> df.rows[r][c]]

\* gm / (2 * pi * cgg), kept as the pair of its operands
Fug(gm, cgg) == [gm |-> gm, two_pi_times |-> cgg]

\* 0.5 * x, exact on an even number of half quanta
Half(x) == x \div 2

\* the right-hand sides of lines 139-144 over the unpacked arrays x
DerivedValue(c, x) ==
    CASE c = "cgd" -> -Half(x.cdg + x.cgd)
      [] c = "cgb" -> x.cgg + Half(x.cdg + x.cgd + x.csg + x.cgs)
      [] c = "cgs" -> -Half(x.cgs + x.csg)
      [] c = "cds" -> -Half(x.cds + x.csd)
      [] c = "csb" -> x.css + Half(x.cds + x.cgs + x.csd + x.cgs)
      [] c = "cdb" -> x.cdd + Half(x.cdg + x.cds + x.cgd + x.csd)

\* lines 131-137: the capacitance columns are copied out of the table
Unpacked(df) ==
    [r \in 1..Len(df.rows) |->
        [c \in Range(cap_columns) |-> df.rows[r][c]]]

\* where lines 139-144 read their operands for row r: the unpacked arrays
OperandsLive(df, sn, r) == df.rows[r]
Operands(df, sn, r) == sn[r]

\* one of the assignments of lines 139-144
AssignDerived(df, sn, c) ==
    SetColumn(df, c, [r \in 1..Len(df.rows) |->
                        DerivedValue(c, Operands(df, sn, r))])

\* round(x, ndigits=2): to the nearest 0.01 V, a tie to the even neighbour
RoundTo(v, grid) ==
    LET q == v \div grid
        rest == v - q * grid
    IN  IF 2 * rest < grid THEN q * grid
        ELSE IF 2 * rest > grid THEN (q + 1) * grid
        ELSE IF q % 2 = 0 THEN q * grid ELSE (q + 1) * grid

Round1(v) == RoundTo(v, 10 * VoltQ)
Round2(v) == RoundTo(v, VoltQ)

\* lines 159-161: sim_data.c = round(sim_data.c, ndigits=2)
RoundColumn(df, c) ==
    SetColumn(df, c, [r \in 1..Len(df.rows) |-> Round2(df.rows[r][c])])

\* sim_data.to_csv(...): every column of the frame, every row
ToCsvSelected(df) ==
    [written |-> TRUE,
     header  |-> SelectSeq(df.cols, LAMBDA c : c \in Range(columns)),
     rows    |-> [r \in 1..Len(df.rows) |->
                    [c \in Range(df.cols) \cap Range(columns) |->
                        df.rows[r][c]]]]
ToCsv(df) == [written |-> TRUE, header |-> df.cols, rows |-> df.rows]

\* lines 149-151: one dataset per name in columns
ToHdf(df) ==
    [written  |-> TRUE,
     datasets |-> [c \in Range(columns) |-> Column(df, c)]]


\* the positions of the script after the pool block, in program order;
\* "raised" is the script ended by an exception
post_steps ==
    << "concat", "fug", "unpack" >> \o derived_columns \o << "write" >>
    \o rounded_columns \o << "traces", "plot", "done", "raised" >>

Pos(pc) == CHOOSE k \in DOMAIN post_steps : post_steps[k] = pc
After(pc) == post_steps[Pos(pc) + 1]

\* line 121
ConcatResults ==
    /\ pool_pc = "done"
    /\ post_pc = "concat"
    /\ sim_data' = Concat(results)
    /\ post_pc' = After(post_pc)
    /\ UNCHANGED <<output_format, snap, stdout, csv_file, h5_file, traces>>
    /\ UNCHANGED <<libVars, sweepVars, poolVars>>

\* line 129
AssignFug ==
    /\ post_pc = "fug"
    /\ sim_data' = SetColumn(sim_data, "fug",
                      [r \in 1..Len(sim_data.rows) |->
                          Fug(sim_data.rows[r]["gm"], sim_data.rows[r]["cgg"])])
    /\ post_pc' = After(post_pc)
    /\ UNCHANGED <<output_format, snap, stdout, csv_file, h5_file, traces>>
    /\ UNCHANGED <<libVars, sweepVars, poolVars>>

\* lines 131-137
Unpack ==
    /\ post_pc = "unpack"
    /\ snap' = Unpacked(sim_data)
    /\ post_pc' = After(post_pc)
    /\ UNCHANGED <<output_format, sim_data, stdout, csv_file, h5_file, traces>>
    /\ UNCHANGED <<libVars, sweepVars, poolVars>>

\* lines 139-144, one action per line
Assign(c) ==
    /\ post_pc = c
    /\ sim_data' = AssignDerived(sim_data, snap, c)
    /\ post_pc' = After(post_pc)
    /\ UNCHANGED <<output_format, snap, stdout, csv_file, h5_file, traces>>
    /\ UNCHANGED <<libVars, sweepVars, poolVars>>

\* lines 147-151: the name data_file is looked up when h5.File is called;
\* an unbound name raises NameError and the script ends
WriteHdf ==
    /\ post_pc = "write"
    /\ output_format \in HdfFormats
    /\ stdout' = Append(stdout, "Writing data to HDF ...")
    /\ IF "data_file" \in ModuleNames
       THEN /\ h5_file' = ToHdf(sim_data)
            /\ post_pc' = After(post_pc)
       ELSE /\ h5_file' = h5_file
            /\ post_pc' = "raised"
    /\ UNCHANGED <<output_format, sim_data, snap, csv_file, traces>>
    /\ UNCHANGED <<libVars, sweepVars, poolVars>>

\* lines 152-154
WriteCsv ==
    /\ post_pc = "write"
    /\ output_format \notin HdfFormats
    /\ output_format = "csv"
    /\ stdout' = Append(stdout, "Writing data to CSV ...")
    /\ csv_file' = ToCsv(sim_data)
    /\ post_pc' = After(post_pc)
    /\ UNCHANGED <<output_format, sim_data, snap, h5_file, traces>>
    /\ UNCHANGED <<libVars, sweepVars, poolVars>>

\* lines 155-156
WriteNothing ==
    /\ post_pc = "write"
    /\ output_format \notin HdfFormats
    /\ output_format # "csv"
    /\ stdout' = Append(stdout,
                  "No supported file format specified, data won't be written.")
    /\ post_pc' = After(post_pc)
    /\ UNCHANGED <<output_format, sim_data, snap, csv_file, h5_file, traces>>
    /\ UNCHANGED <<libVars, sweepVars, poolVars>>

\* lines 159-161, one action per line
Round(c) ==
    /\ post_pc = c
    /\ sim_data' = RoundColumn(sim_data, c)
    /\ post_pc' = After(post_pc)
    /\ UNCHANGED <<output_format, snap, stdout, csv_file, h5_file, traces>>
    /\ UNCHANGED <<libVars, sweepVars, poolVars>>

\* lines 164-166: the rows at Vbs = VSS of one width and one length, each
\* picked by random.choice among the values in the table
SelectTraces ==
    /\ post_pc = "traces"
    /\ \E w \in Range(Column(sim_data, "W")) :
       \E l \in Range(Column(sim_data, "L")) :
          traces' = SelectSeq(sim_data.rows,
                       LAMBDA row : /\ row["Vbs"] = VSS
                                    /\ row["W"] = w
                                    /\ row["L"] = l)
    /\ post_pc' = After(post_pc)
    /\ UNCHANGED <<output_format, sim_data, snap, stdout, csv_file, h5_file>>
    /\ UNCHANGED <<libVars, sweepVars, poolVars>>

\* lines 169-188: the plots read traces and change nothing
Plot ==
    /\ post_pc = "plot"
    /\ post_pc' = After(post_pc)
    /\ UNCHANGED <<output_format, sim_data, snap, stdout, csv_file, h5_file,
                   traces>>
    /\ UNCHANGED <<libVars, sweepVars, poolVars>>

PostNext ==
    \/ ConcatResults
    \/ AssignFug
    \/ Unpack
    \/ Assign("cgd") \/ Assign("cgb") \/ Assign("cgs")
    \/ Assign("cds") \/ Assign("csb") \/ Assign("cdb")
    \/ WriteHdf \/ WriteCsv \/ WriteNothing
    \/ Round("Vgs") \/ Round("Vds") \/ Round("Vbs")
    \/ SelectTraces
    \/ Plot

(***************************************************************************)
(* The four specifications.                                                *)
(***************************************************************************)
CircuitAt(point) == [w |-> point[1], l |-> point[2], vbs |-> point[3]]

\* setup_library called up to MaxCalls times on one file system
InitLib == LibInit /\ SweepInit /\ PoolInit /\ PostIdle
SpecLib == InitLib /\ [][LibNext]_vars

\* the comprehension of lines 106-109
InitSweep == LibReturned /\ SweepInit /\ PoolInit /\ PostIdle
SpecSweep == InitSweep /\ [][SweepNext]_vars

\* the pool block on a sample of the sweep
InitPool ==
    /\ LibReturned
    /\ sweep = SweepSample(MaxTasks)
    /\ loop = [pc |-> "done", vbs |-> Len(vbs_values) + 1, l |-> 1, w |-> 1]
    /\ PoolInit
    /\ PostIdle
SpecPool == InitPool /\ [][PoolNext]_vars

\* the script after the pool block, on the results of up to MaxRuns runs
InitPost ==
    /\ LibReturned
    /\ loop = [pc |-> "done", vbs |-> Len(vbs_values) + 1, l |-> 1, w |-> 1]
    /\ \E n \in 1..MaxRuns :
       \E seeds \in [1..n -> 1..NumSeeds] :
          /\ sweep = SweepSample(n)
          /\ results = [i \in 1..n |->
                          RunData(CircuitAt(sweep[i]), seeds[i])]
          /\ taskq = n + 1
          /\ imap_it = [index |-> n + 1, items |-> <<>>, unsorted |-> {}]
    /\ worker = [wk \in Workers |->
                    [pc |-> "idle", task |-> 0, ckt |-> InitialCircuit]]
    /\ outqueue = <<>>
    /\ pool_pc = "done"
    /\ output_format \in Formats
    /\ sim_data = NoFrame
    /\ snap = <<>>
    /\ post_pc = "concat"
    /\ stdout = <<>>
    /\ csv_file = NoCsv
    /\ h5_file = NoHdf
    /\ traces = <<>>
SpecPost == InitPost /\ [][PostNext]_vars


(***************************************************************************)
(* Claims about setup_library (SpecLib).                                   *)
(***************************************************************************)
model_path == ModelPath(lib_path, model_file)

\* C1: setup_library is idempotent and caches the model on disk.  After a
\* call that returns, a file exists at ./lib/90nm_bulk.lib; a call that
\* finds the file there makes no HTTP request and leaves the file system
\* as it found it; every call after one that returned downloads nothing
\* and changes nothing; and every call returns './lib'.
C1_SetupLibraryIdempotent ==
    /\ lib_pc = "returned" => fs[model_path].kind = "file"
    /\ (lib_pc # "idle" /\ entry.fs[model_path].kind = "file")
          => (fs = entry.fs /\ http_requests = entry.http)
    /\ (Len(returned) >= 2
          \/ (Len(returned) = 1 /\ lib_pc # "returned"))
          => (fs = entry.fs /\ http_requests = entry.http)
    /\ \A i \in DOMAIN returned : returned[i] = "./lib"

\* a second call has returned after a first one that created the directory
\* and downloaded the model
C1_Witness ==
    /\ lib_pc = "returned"
    /\ Len(returned) = 2
    /\ http_requests = 1
    /\ fs[model_path] \in {File(c) : c \in Responses}
    /\ entry.fs = fs

\* C10: if requests.get raises inside setup_library, no file is left at
\* the model path, and when a call has ended a file is at the model path
\* only if it holds a download response.
C10_FailedDownloadLeavesNoFile ==
    /\ lib_pc = "raised" => fs[model_path].kind = "absent"
    /\ (lib_pc \in {"raised", "returned"} /\ fs[model_path].kind = "file")
          => fs[model_path].data \in Responses

(***************************************************************************)
(* Claims about the sweep grid (SpecSweep).                                *)
(***************************************************************************)
\* C2: the sweep list is the full Cartesian product of 10 bulk voltages,
\* 10 lengths and 10 widths: exactly 1000 pairwise distinct triples
\* (w, l, vbs), every combination once, vbs varying slowest, l next and w
\* fastest; widths run from 1e-6 to 75e-6 and lengths from 150e-9 to 10e-6,
\* both ends included; bulk voltages start at 0.0 and step by -0.1, and
\* -1.0 is not among them.
C2_SweepIsCartesianProduct ==
    loop.pc = "done" =>
       /\ Len(sweep) = 1000
       /\ Cardinality({sweep[a] : a \in 1..Len(sweep)}) = 1000
       /\ \A iv \in 0..9 : \A il \in 0..9 : \A iw \in 0..9 :
             sweep[1 + iw + 10 * il + 100 * iv] =
                << 9000 + iw * 74000, 1350 + il * 9850, 0 - iv * 100 >>
       /\ sweep[1][1] = min_W /\ sweep[10][1] = max_W
       /\ sweep[1][2] = min_L /\ sweep[91][2] = max_L
       /\ sweep[1][3] = 0 /\ sweep[101][3] = step_VB
       /\ \A a \in 1..Len(sweep) : sweep[a][3] > min_VB
       /\ sweep = SweepList

C2_Witness ==
    /\ loop.pc = "done"
    /\ Len(sweep) > 0
    /\ sweep[Len(sweep)] = << max_W, max_L, min_VB - step_VB >>

(***************************************************************************)
(* Claims about the pool block (SpecPool).                                 *)
(***************************************************************************)
\* where task i is: in a worker's hands, on the result pipe, waiting in
\* the iterator, or already passed on by the iterator in order
Holders(i) ==
    Cardinality({wk \in Workers : worker[wk].task = i})
    + Cardinality({k \in DOMAIN outqueue : outqueue[k].i = i})
    + Cardinality({u \in imap_it.unsorted : u.i = i})
    + (IF i < imap_it.index THEN 1 ELSE 0)

\* the W, L and Vbs columns of a data frame are those of sweep point i
RunIsOf(run, i) ==
    \A r \in DOMAIN run.rows :
       /\ run.rows[r]["W"] = sweep[i][1]
       /\ run.rows[r]["L"] = sweep[i][2]
       /\ run.rows[r]["Vbs"] - sweep[i][3] \in {-1, 0, 1}

\* C3: at the moment a worker runs the analysis, its circuit holds the
\* width, length and bulk voltage of its own task, whatever the worker ran
\* before and whatever the other workers are doing; every data frame sent
\* back carries the coordinates of the task it is sent back for.
C3_SimulationUsesOwnPoint ==
    /\ \A wk \in Workers :
          worker[wk].pc = "dc" =>
             worker[wk].ckt = CircuitAt(sweep[worker[wk].task])
    /\ \A k \in DOMAIN outqueue : RunIsOf(outqueue[k].run, outqueue[k].i)

\* a worker that has run task 1 is about to simulate task 3 while another
\* worker is in the middle of sim_dc for task 2
C3_Witness ==
    \E wk \in Workers : \E other \in Workers \ {wk} :
       /\ worker[wk].pc = "dc" /\ worker[wk].task = 3
       /\ worker[other].pc = "l" /\ worker[other].task = 2
       /\ worker[other].ckt.l = 0
       /\ \A x \in Workers \ {wk, other} : worker[x].ckt = InitialCircuit
       /\ imap_it.index > 1

\* C4: whatever the scheduling, every sweep point is simulated exactly
\* once, and when the pool block has finished results has len(sweep)
\* entries, results[i] being sim_dc of sweep[i], so that the concatenated
\* table holds the runs in sweep order.
C4_ResultsInSweepOrder ==
    /\ \A i \in 1..Len(sweep) : Holders(i) = (IF i < taskq THEN 1 ELSE 0)
    /\ pool_pc = "done" =>
          /\ Len(results) = Len(sweep)
          /\ \A i \in 1..Len(sweep) :
                /\ results[i] = RunData(CircuitAt(sweep[i]),
                                        SeedOf(CircuitAt(sweep[i])))
                /\ RunIsOf(results[i], i)
          /\ \A i \in 1..Len(sweep) : \A r \in 1..Len(DcGrid) :
                Concat(results).rows[(i - 1) * Len(DcGrid) + r]["W"]
                   = sweep[i][1]

\* the pool block has finished after at least two workers ran tasks
C4_Witness ==
    /\ pool_pc = "done"
    /\ Len(results) >= 3
    /\ \E a \in Workers : \E b \in Workers \ {a} :
          /\ worker[a].ckt # InitialCircuit
          /\ worker[b].ckt # InitialCircuit


(***************************************************************************)
(* Claims about post processing (SpecPost).                                *)
(***************************************************************************)
\* the table as concatenated: results is not touched after the pool block
Raw == Concat(results)

\* step pc has been carried out (the only step that raises is the write)
Reached(pc) ==
    IF post_pc = "raised" THEN Pos(pc) <= Pos("write")
    ELSE Pos(post_pc) > Pos(pc)

Abs(x) == IF x < 0 THEN -x ELSE x

\* C5, as stated: once the runs are concatenated no later step changes any
\* field of any record, and the table read for plotting is, value for
\* value, the table written to disk.
C5_NoMutationAfterCreation ==
    /\ Reached("concat") =>
          \A r \in DOMAIN sim_data.rows : \A c \in Range(column_names) :
             sim_data.rows[r][c] = Raw.rows[r][c]
    /\ (csv_file.written /\ post_pc \in {"traces", "plot", "done"})
          => csv_file.rows = sim_data.rows

\* C5, amended: after concatenation every column other than the six
\* derived capacitances and the three terminal voltages keeps the value the
\* simulator gave it, through every later step; a terminal voltage keeps it
\* until its rounding step, and from then on is the nearest multiple of
\* 0.01 V; the table read for plotting equals the table written to disk in
\* every column but Vgs, Vds and Vbs, which are the written values rounded
\* to two decimals.
C5_OnlyDerivedAndRoundedChange ==
    /\ Reached("concat") =>
          \A r \in DOMAIN sim_data.rows :
             /\ \A c \in Range(column_names)
                         \ (Range(derived_columns) \cup Range(rounded_columns)) :
                   sim_data.rows[r][c] = Raw.rows[r][c]
             /\ \A c \in Range(rounded_columns) :
                   IF Reached(c)
                   THEN /\ sim_data.rows[r][c] % VoltQ = 0
                        /\ 2 * Abs(sim_data.rows[r][c] - Raw.rows[r][c]) <= VoltQ
                   ELSE sim_data.rows[r][c] = Raw.rows[r][c]
    /\ (csv_file.written /\ post_pc \in {"traces", "plot", "done"}) =>
          /\ Len(csv_file.rows) = Len(sim_data.rows)
          /\ csv_file.header = sim_data.cols
          /\ \A r \in DOMAIN sim_data.rows :
                /\ \A c \in Range(sim_data.cols) \ Range(rounded_columns) :
                      sim_data.rows[r][c] = csv_file.rows[r][c]
                /\ \A c \in Range(rounded_columns) :
                      /\ sim_data.rows[r][c] % VoltQ = 0
                      /\ 2 * Abs(sim_data.rows[r][c] - csv_file.rows[r][c])
                            <= VoltQ

\* the table is being plotted after a write; a derived capacitance differs
\* from the simulator's value and a plotted voltage from the written one
C5_Witness ==
    /\ post_pc = "plot"
    /\ csv_file.written
    /\ \E r \in DOMAIN sim_data.rows :
          /\ sim_data.rows[r]["cgd"] # Raw.rows[r]["cgd"]
          /\ sim_data.rows[r]["Vds"] # csv_file.rows[r]["Vds"]

\* C6: with output_format 'hdf5', 'hdf' or 'h5' the write step does not
\* raise, leaves an HDF5 file holding one flat numeric array and a parallel
\* array of column names, and the script goes on to round and plot.
C6_HdfWriteCompletes ==
    output_format \in HdfFormats =>
       /\ post_pc # "raised"
       /\ Reached("write") =>
             /\ h5_file.written
             /\ DOMAIN h5_file.datasets = {"data", "columns"}

\* C7: with output_format 'csv' the file is written after fug and the six
\* symmetrized capacitances have been computed and holds every column of
\* the table, derived ones included, for every record of every run; each
\* run of the script takes exactly one of the three output branches; an
\* unsupported format writes no file and does not end the script.
C7_CsvHoldsAllColumns ==
    /\ csv_file.written =>
          /\ output_format = "csv"
          /\ csv_file.header = column_names \o << "fug" >>
          /\ Len(csv_file.rows) = Len(results) * Len(DcGrid)
          /\ \A r \in DOMAIN csv_file.rows :
                /\ DOMAIN csv_file.rows[r] = Range(column_names) \cup {"fug"}
                /\ csv_file.rows[r]["fug"]
                      = Fug(Raw.rows[r]["gm"], Raw.rows[r]["cgg"])
                /\ \A c \in Range(derived_columns) :
                      csv_file.rows[r][c] = DerivedValue(c, Raw.rows[r])
                /\ \A c \in Range(column_names) \ Range(derived_columns) :
                      csv_file.rows[r][c] = Raw.rows[r][c]
    /\ Len(stdout) = (IF Reached("write") THEN 1 ELSE 0)
    /\ ~(csv_file.written /\ h5_file.written)
    /\ (Reached("write") /\ output_format = "csv") => csv_file.written
    /\ output_format \notin (HdfFormats \cup {"csv"}) =>
          /\ ~csv_file.written
          /\ ~h5_file.written
          /\ post_pc # "raised"

\* the CSV file is on disk and the script has run to its end
C7_Witness ==
    /\ post_pc = "done"
    /\ csv_file.written
    /\ Len(csv_file.rows) > Len(DcGrid)
    /\ \E r \in DOMAIN csv_file.rows :
          csv_file.rows[r]["csb"] # Raw.rows[r]["csb"]

\* a record with the raw values of one reciprocal pair exchanged
Swapped(x, a, b) == [x EXCEPT ![a] = x[b], ![b] = x[a]]

reciprocal_pairs == { <<"cgd", "cdg">>, <<"cgs", "csg">>, <<"cds", "csd">> }

\* C8: each derived capacitance is a symmetric function of the reciprocal
\* raw pairs: exchanging cgd with cdg, cgs with csg or cds with csd in a
\* record leaves its derived cgd, cgb, cgs, cds, csb and cdb unchanged;
\* and cgb = cgg - cgd' - cgs', cdb = cdd - cgd' - cds',
\* csb = css - cgs' - cds' for the derived cgd', cgs', cds'.
C8_DerivedCapacitancesSymmetric ==
    Reached("cdb") =>
       \A r \in DOMAIN sim_data.rows :
          /\ \A p \in reciprocal_pairs : \A c \in Range(derived_columns) :
                DerivedValue(c, Swapped(Raw.rows[r], p[1], p[2]))
                   = sim_data.rows[r][c]
          /\ sim_data.rows[r]["cgb"] = Raw.rows[r]["cgg"]
                - sim_data.rows[r]["cgd"] - sim_data.rows[r]["cgs"]
          /\ sim_data.rows[r]["cdb"] = Raw.rows[r]["cdd"]
                - sim_data.rows[r]["cgd"] - sim_data.rows[r]["cds"]
          /\ sim_data.rows[r]["csb"] = Raw.rows[r]["css"]
                - sim_data.rows[r]["cgs"] - sim_data.rows[r]["cds"]

\* the assignments of the columns in S carried out in the order of
\* lines 139-144
RECURSIVE AssignInOrder(_, _, _, _)
AssignInOrder(df, sn, S, k) ==
    IF k > Len(derived_columns) THEN df
    ELSE AssignInOrder(IF derived_columns[k] \in S
                          THEN AssignDerived(df, sn, derived_columns[k])
                          ELSE df,
                       sn, S, k + 1)

\* C9: every derived column is computed from the simulator's values of its
\* record.  Once assigned, each of the six capacitances is the right-hand
\* side of its line evaluated on the raw record; fug is gm / (2 pi cgg) of
\* the raw record and cgg is never overwritten; and the six assignments
\* give the same table in every order: whichever of the other five have
\* been carried out, an assignment leads to the table that the order of
\* lines 139-144 gives for the same set of columns.
C9_DerivedFromRawValues ==
    /\ \A c \in Range(derived_columns) :
          Reached(c) =>
             \A r \in DOMAIN sim_data.rows :
                sim_data.rows[r][c] = DerivedValue(c, Raw.rows[r])
    /\ Reached("fug") =>
          \A r \in DOMAIN sim_data.rows :
             /\ sim_data.rows[r]["fug"]
                   = Fug(Raw.rows[r]["gm"], Raw.rows[r]["cgg"])
             /\ sim_data.rows[r]["cgg"] = Raw.rows[r]["cgg"]
    /\ post_pc = derived_columns[1] =>
          \A c \in Range(derived_columns) :
          \A S \in SUBSET (Range(derived_columns) \ {c}) :
             AssignDerived(AssignInOrder(sim_data, snap, S, 1), snap, c)
                = AssignInOrder(sim_data, snap, S \cup {c}, 1)

\* all six columns are assigned, and in some record the raw cgd, cgs and
\* cds that the later lines read differ from the values written over them
C9_Witness ==
    /\ post_pc = "write"
    /\ \E r \in DOMAIN sim_data.rows :
          /\ sim_data.rows[r]["cgd"] # Raw.rows[r]["cgd"]
          /\ sim_data.rows[r]["cgs"] # Raw.rows[r]["cgs"]
          /\ sim_data.rows[r]["cds"] # Raw.rows[r]["cds"]


====
